---- MODULE Spec2Model ----
(***************************************************************************)
(* hucache: a declarative cache decorator.  Cache.__call__ binds the call  *)
(* arguments to parameter names, renders the key template, asks the store  *)
(* and, on a miss, invokes the wrapped function and stores its result.     *)
(* Cache.invalidate renders the same key and deletes it.  The store is a   *)
(* RedisStore holding JSON documents.                                      *)
(***************************************************************************)
EXTENDS Integers, Sequences, FiniteSets, TLC

VARIABLES
    store,      \* the Redis keyspace: key -> [data, ttl]
    caches,     \* the unbound Cache objects made at decoration time, by name
    bound,      \* the latest attribute access: [cache, via] (none or one)
    last,       \* what the latest operation did (its store traffic and outcome)
    populated,  \* per live key: the call that populated it (history)
    nops,       \* operations performed so far
    conn,       \* the Redis connection: "up", or "flaky" when a command may fail
    procs       \* concurrent callers: where each is in its handler

vars == <<store, caches, bound, last, populated, nops, conn, procs>>

(***************************************************************************)
(* Bounds of the model.                                                    *)
(***************************************************************************)
\* operations (calls, invalidations, expiries) performed in one behaviour
MaxOps == 3
\* concurrent callers, each performing one call or one invalidate
NProcs == 2

(***************************************************************************)
(* Python values: a tag, an integer payload and a string payload.          *)
(***************************************************************************)
V(t, n, s) == [t |-> t, n |-> n, s |-> s]
PyInt(n) == V("int", n, "")
PyStr(s) == V("str", 0, s)
PyBool(b) == V("bool", IF b THEN 1 ELSE 0, "")
None == V("NoneType", 0, "")
EmptyList == V("list", 0, "")
\* an instance of the doctest class Example, holding self.incr
Example(incr) == V("Example", incr, "")
\* the class object Example itself
ExampleClass == V("type", 0, "Example")
\* a datetime.datetime, held by its "%Y-%m-%d %H:%M:%S" text
DateTime(text) == V("datetime", 0, text)
\* a decimal.Decimal, held by its str() text
Decimal(text) == V("Decimal", 0, text)
\* an instance of the doctest namedtuple Point, holding id
Point(id) == V("Point", id, "")

\* the miss sentinel, an instance of a class of its own
NOT_FOUND == V("NotFound", 0, "")
DEFAULT_TIMEOUT == 3600

\* outcome of a step that may raise
Ok(v) == [ok |-> TRUE, v |-> v, err |-> ""]
Raise(e) == [ok |-> FALSE, v |-> None, err |-> e]

(***************************************************************************)
(* The decorated callables of the module doctest.                          *)
(***************************************************************************)
\* a callable: its name, what kind of object it is, and its receiver
Func(name, kind, self) == [name |-> name, kind |-> kind, self |-> self]

\* getargspec(func).args
ArgNames(name) ==
    CASE name = "add" -> <<"a", "b", "c">>
      [] name = "mul" -> <<"a", "b", "c">>
      [] name = "Example.add" -> <<"self", "a", "b", "c">>
      [] name = "Example.mul" -> <<"cls", "a", "b", "c">>
      [] name = "fetch" -> <<"a">>
      [] name = "add_ref" -> <<"a", "b", "c">>
      [] name = "stamp" -> <<"a">>

\* getargspec(func).defaults
Defaults(name) ==
    CASE name = "add" -> <<PyInt(1)>>
      [] name = "mul" -> <<PyInt(2)>>
      [] name = "Example.add" -> <<PyInt(1)>>
      [] name = "Example.mul" -> <<PyInt(2)>>
      [] name = "fetch" -> <<>>
      [] name = "add_ref" -> <<PyInt(1)>>
      [] name = "stamp" -> <<>>

\* a key template: literal text, {name} and {name.attr} replacement fields
Lit(s) == [lit |-> TRUE, s |-> s, attr |-> ""]
Field(n) == [lit |-> FALSE, s |-> n, attr |-> ""]
FieldAttr(n, a) == [lit |-> FALSE, s |-> n, attr |-> a]

Ruler(name) ==
    CASE name = "add" -> <<Lit("add:"), Field("a"), Lit(":"), Field("b")>>
      [] name = "mul" ->
           <<Lit("mul:"), Field("a"), Lit(":"), Field("b"), Lit(":"), Field("c")>>
      [] name = "Example.add" ->
           <<Lit("example.add:"), Field("a"), Lit(":"), Field("b"), Lit(":"), Field("c")>>
      [] name = "Example.mul" ->
           <<Lit("example.mul:"), Field("a"), Lit(":"), Field("b"), Lit(":"), Field("c")>>
      [] name = "fetch" -> <<Lit("fetch:"), Field("a")>>
      [] name = "add_ref" ->
           <<Lit("add_ref:"), FieldAttr("a", "id"), Lit(":"), FieldAttr("b", "id")>>
      [] name = "stamp" -> <<Lit("stamp:"), Field("a")>>

(***************************************************************************)
(* Argument binding: Cache.__prune_arguments.                              *)
(***************************************************************************)
EmptyKw == [n \in {} |-> None]

\* dict(zip(names, args)): the shorter of the two decides the length
Zip(names, args) ==
    LET m == IF Len(names) < Len(args) THEN Len(names) ELSE Len(args)
    IN  [n \in {names[i] : i \in 1..m} |->
            args[CHOOSE i \in 1..m : names[i] = n /\ \A j \in (i+1)..m : names[j] # n]]

\* an update that keeps the entries kwargs already has
UpdateKeep(kwargs, other) ==
    [n \in DOMAIN kwargs \cup DOMAIN other |->
        IF n \in DOMAIN kwargs THEN kwargs[n] ELSE other[n]]

\* kwargs.update(other): the entries of other replace those of kwargs
Update(kwargs, other) ==
    [n \in DOMAIN kwargs \cup DOMAIN other |->
        IF n \in DOMAIN other THEN other[n] ELSE kwargs[n]]

\* a zip that never skips the receiver
ZipNamesAll(func) == ArgNames(func.name)

\* the names the positional arguments are zipped against
ZipNames(func) ==
    IF func.kind = "method" THEN Tail(ArgNames(func.name)) ELSE ArgNames(func.name)

\* a loop over defaults that counts parameters from the front
FillDefaultsFront(func, kwargs) ==
    LET names == ArgNames(func.name)
        defs == Defaults(func.name)
        missing == {i \in 1..Len(defs) : names[i] \notin DOMAIN kwargs}
    IN  [n \in DOMAIN kwargs \cup {names[i] : i \in missing} |->
            IF n \in DOMAIN kwargs THEN kwargs[n]
            ELSE defs[CHOOSE i \in missing : names[i] = n]]

\* a binding that leaves the omitted parameters out
FillDefaultsNone(func, kwargs) == kwargs

\* the loop over defaults: a default fills a name that is not in kwargs
FillDefaults(func, kwargs) ==
    LET names == ArgNames(func.name)
        defs == Defaults(func.name)
        off == Len(names) - Len(defs)
        missing == {i \in 1..Len(defs) : names[off + i] \notin DOMAIN kwargs}
    IN  [n \in DOMAIN kwargs \cup {names[off + i] : i \in missing} |->
            IF n \in DOMAIN kwargs THEN kwargs[n]
            ELSE defs[CHOOSE i \in missing : names[off + i] = n]]

PruneArguments(func, args, kwargs) ==
    LET merged == IF Len(args) > 0 THEN Update(kwargs, Zip(ZipNames(func), args))
                  ELSE kwargs
    IN  FillDefaults(func, merged)

(***************************************************************************)
(* Key rendering: the template formatted with the bound arguments.         *)
(***************************************************************************)
\* format(value, ""), which is str(value) for these types
StrOf(v) ==
    CASE v.t = "int" -> ToString(v.n)
      [] v.t = "str" -> v.s
      [] v.t = "bool" -> IF v.n = 1 THEN "True" ELSE "False"
      [] v.t = "NoneType" -> "None"
      [] v.t = "list" -> "[]"
      [] OTHER -> "<" \o v.t \o ">"

\* an attribute lookup that yields None for an attribute the value lacks
GetAttrNone(v, a) ==
    CASE v.t = "Point" /\ a = "id" -> Ok(PyInt(v.n))
      [] v.t = "Example" /\ a = "incr" -> Ok(PyInt(v.n))
      [] OTHER -> Ok(None)

\* getattr(value, attr), as str.format resolves a dotted field
GetAttr(v, a) ==
    CASE v.t = "Point" /\ a = "id" -> Ok(PyInt(v.n))
      [] v.t = "Example" /\ a = "incr" -> Ok(PyInt(v.n))
      [] OTHER -> Raise("AttributeError")

\* str.format resolves the fields from left to right; the first one that
\* cannot be resolved raises
RECURSIVE FormatFrom(_, _, _)
FormatFrom(ruler, kwargs, i) ==
    IF i > Len(ruler) THEN Ok("")
    ELSE LET piece == ruler[i]
             rest == FormatFrom(ruler, kwargs, i + 1)
         IN  IF piece.lit
             THEN IF rest.ok THEN Ok(piece.s \o rest.v) ELSE rest
             ELSE IF piece.s \notin DOMAIN kwargs THEN Raise("KeyError")
             ELSE LET val == IF piece.attr = "" THEN Ok(kwargs[piece.s])
                             ELSE GetAttr(kwargs[piece.s], piece.attr)
                  IN  IF ~val.ok THEN val
                      ELSE IF rest.ok THEN Ok(StrOf(val.v) \o rest.v) ELSE rest

\* a rendering that appends every bound argument the template leaves out
FormatAll(ruler, kwargs) ==
    LET r == FormatFrom(ruler, kwargs, 1)
        used == {ruler[i].s : i \in {j \in 1..Len(ruler) : ~ruler[j].lit}}
    IN  IF r.ok /\ "c" \in DOMAIN kwargs \ used
        THEN Ok(r.v \o ":" \o StrOf(kwargs["c"]))
        ELSE r

Format(ruler, kwargs) == FormatFrom(ruler, kwargs, 1)

(***************************************************************************)
(* Serializer (JSON) and RedisStore.                                       *)
(***************************************************************************)
\* a JSON document: its kind and its payload
Json(k, n, s) == [j |-> k, n |-> n, s |-> s]

\* json.dumps(data, cls=AwareJSONEncoder)
ToJson(v) ==
    CASE v.t = "int" -> Ok(Json("number", v.n, ""))
      [] v.t = "str" -> Ok(Json("string", 0, v.s))
      [] v.t = "bool" -> Ok(Json(IF v.n = 1 THEN "true" ELSE "false", 0, ""))
      [] v.t = "NoneType" -> Ok(Json("null", 0, ""))
      [] v.t = "list" -> Ok(Json("array", 0, ""))
      [] v.t = "datetime" -> Ok(Json("string", 0, v.s))
      [] v.t = "Decimal" -> Ok(Json("string", 0, v.s))
      [] OTHER -> Raise("TypeError")

\* json.loads(stream, object_hook=...)
FromJson(d) ==
    CASE d.j = "number" -> PyInt(d.n)
      [] d.j = "string" -> PyStr(d.s)
      [] d.j = "true" -> PyBool(TRUE)
      [] d.j = "false" -> PyBool(FALSE)
      [] d.j = "null" -> None
      [] d.j = "array" -> EmptyList

\* a get that falls back on the default by truth value, "decode(data) or default"
StoreGetOrDefault(st, key) ==
    IF key \notin DOMAIN st THEN NOT_FOUND
    ELSE IF FromJson(st[key].data) \in
              {None, PyInt(0), PyStr(""), PyBool(FALSE), EmptyList}
    THEN NOT_FOUND
    ELSE FromJson(st[key].data)

\* RedisStore.get: the default only when the connection holds no data
StoreGet(st, key) ==
    IF key \notin DOMAIN st THEN NOT_FOUND ELSE FromJson(st[key].data)

\* a set that never reaches the connection
StoreSetLost(st, key, data, timeout) == st

\* RedisStore.set: conn.setex(key, timeout, data), data already encoded
StoreSet(st, key, data, timeout) ==
    [k \in DOMAIN st \cup {key} |->
        IF k = key THEN [data |-> data, ttl |-> timeout] ELSE st[k]]

\* a delete that never reaches the connection
StoreDeleteLost(st, key) == st

\* RedisStore.delete: deleting an absent key is no error
StoreDelete(st, key) == [k \in DOMAIN st \ {key} |-> st[k]]

(***************************************************************************)
(* The wrapped callables and their invocation by keywords.                 *)
(***************************************************************************)
\* what fetch, a function reading external state, may return
FetchReturns ==
    {None, PyInt(0), PyStr(""), PyBool(FALSE), EmptyList, PyInt(5), PyStr("x")}

\* what stamp, a function reading a row of a table, may return
StampReturns ==
    {DateTime("2020-01-02 03:04:05"), Decimal("1.5"), PyStr("1.5"), PyInt(5),
     EmptyList}

IsInts(kwargs, names) == \A n \in names : kwargs[n].t = "int"

\* the bodies of the doctest functions
Body(func, kwargs) ==
    CASE func.name = "add" ->
           IF IsInts(kwargs, {"a", "b", "c"})
           THEN {Ok(PyInt(kwargs["a"].n + kwargs["b"].n + kwargs["c"].n))}
           ELSE {Raise("TypeError")}
      [] func.name = "mul" ->
           IF IsInts(kwargs, {"a", "b", "c"})
           THEN {Ok(PyInt(kwargs["a"].n * kwargs["b"].n * kwargs["c"].n))}
           ELSE {Raise("TypeError")}
      [] func.name = "Example.add" ->
           LET self == IF func.kind = "method" THEN func.self ELSE kwargs["self"]
           IN  IF self.t # "Example" THEN {Raise("AttributeError")}
               ELSE IF IsInts(kwargs, {"a", "b", "c"})
               THEN {Ok(PyInt(kwargs["a"].n + kwargs["b"].n + kwargs["c"].n + self.n))}
               ELSE {Raise("TypeError")}
      [] func.name = "Example.mul" ->
           IF IsInts(kwargs, {"a", "b", "c"})
           THEN {Ok(PyInt(kwargs["a"].n * kwargs["b"].n * kwargs["c"].n))}
           ELSE {Raise("TypeError")}
      [] func.name = "fetch" -> {Ok(r) : r \in FetchReturns} \cup {Raise("IOError")}
      [] func.name = "stamp" -> {Ok(r) : r \in StampReturns}
      [] func.name = "add_ref" ->
           IF kwargs["a"].t = "Point" /\ kwargs["b"].t = "Point"
           THEN IF IsInts(kwargs, {"c"})
                THEN {Ok(PyInt(kwargs["a"].n + kwargs["b"].n + kwargs["c"].n))}
                ELSE {Raise("TypeError")}
           ELSE {Raise("AttributeError")}

\* the function's own defaults, which Python applies to the parameters a
\* call does not pass
OwnDefaults(func, kwargs) ==
    LET names == ArgNames(func.name)
        defs == Defaults(func.name)
        off == Len(names) - Len(defs)
    IN  [n \in DOMAIN kwargs \cup {names[off + i] : i \in 1..Len(defs)} |->
            IF n \in DOMAIN kwargs THEN kwargs[n]
            ELSE defs[CHOOSE i \in 1..Len(defs) : names[off + i] = n]]

\* Python's own check of a call by keywords: no unknown name, no name given
\* twice (the receiver of a bound method is already given), none missing
Invoke(func, kwargs) ==
    LET names == ArgNames(func.name)
        params == IF func.kind = "method" THEN Tail(names) ELSE names
        pset == {params[i] : i \in 1..Len(params)}
        nreq == Len(names) - Len(Defaults(func.name))
        required == {names[i] : i \in 1..nreq} \cap pset
    IN  IF func.kind = "classmethod" THEN {Raise("TypeError")}
        ELSE IF ~(DOMAIN kwargs \subseteq pset) THEN {Raise("TypeError")}
        ELSE IF ~(required \subseteq DOMAIN kwargs) THEN {Raise("TypeError")}
        ELSE Body(func, OwnDefaults(func, kwargs))

(***************************************************************************)
(* Cache objects, CacheFactory.cache and Cache.__get__.                    *)
(***************************************************************************)
Cache(st, prefix, func, ruler, timeout) ==
    [store |-> st, prefix |-> prefix, func |-> func, ruler |-> ruler,
     timeout |-> timeout]

\* the object each decorated name holds before the decorator is applied
Decorated(name) ==
    Func(name, IF name = "Example.mul" THEN "classmethod" ELSE "function", None)

\* the names that are attributes of class Example
ClassAttrs == {"Example.add", "Example.mul"}

\* CacheFactory.cache(ruler)(func), with no timeout given
Wrapper(prefix, name) ==
    Cache("redis", prefix, Decorated(name), Ruler(name), DEFAULT_TIMEOUT)

\* a classmethod that binds the instance it is reached through
FuncGetInstance(func, instance, owner) ==
    CASE func.kind = "classmethod" -> Func(func.name, "method", instance)
      [] func.kind = "function" ->
           IF instance = None THEN func ELSE Func(func.name, "method", instance)
      [] OTHER -> func

\* func.__get__(instance, owner) of a function or of a classmethod object
FuncGet(func, instance, owner) ==
    CASE func.kind = "classmethod" -> Func(func.name, "method", owner)
      [] func.kind = "function" ->
           IF instance = None THEN func ELSE Func(func.name, "method", instance)
      [] OTHER -> func

\* an attribute dict shared with the original: wrapped_self.__dict__ = self.__dict__
DictShare(self) == [shared |-> TRUE, fields |-> self]

\* self.__dict__.copy(): a dict of its own with the same entries, so that an
\* assignment to an attribute of the new object leaves the original alone
DictCopy(self) == [shared |-> FALSE, fields |-> self]

\* Cache.__get__: the object it returns, from the fields it starts with
CacheGet(self, instance, owner) ==
    IF instance = None
    THEN IF self.func.kind = "classmethod"
         THEN [self EXCEPT !.func = FuncGet(self.func, None, owner)]
         ELSE self
    ELSE IF self.func.kind # "method"
         THEN [self EXCEPT !.func = FuncGet(self.func, instance, owner)]
         ELSE self

(***************************************************************************)
(* Cache.__call__ and Cache.invalidate.                                    *)
(***************************************************************************)
\* the record of one operation: its input, its store traffic, its outcome
Blank ==
    [op |-> "none",
     target |-> Cache("redis", "", Func("", "function", None), <<>>, 0),
     args |-> <<>>, kwargs |-> EmptyKw,
     bind |-> EmptyKw, key |-> "", existed |-> FALSE,
     gets |-> 0, got |-> NOT_FOUND,
     invokes |-> 0, fpos |-> <<>>, fargs |-> EmptyKw,
     sets |-> 0, setkey |-> "", setdata |-> Json("null", 0, ""), setttl |-> 0,
     dels |-> 0, delkey |-> "",
     failed |-> "", cause |-> "",
     raised |-> FALSE, err |-> "", result |-> None,
     pre |-> FALSE, prevInv |-> ""]

\* a prefix joined to the key with a separator of its own
WithPrefixSep(prefix, key) == IF prefix # "" THEN prefix \o "/" \o key ELSE key

\* if self._prefix: cache_key = self._prefix + cache_key
WithPrefix(prefix, key) == IF prefix # "" THEN prefix \o key ELSE key

\* the key Cache.__call__ computes
CallKey(self, args, kwargs) ==
    LET r == Format(self.ruler, PruneArguments(self.func, args, kwargs))
    IN  IF r.ok THEN Ok(WithPrefix(self.prefix, r.v)) ELSE r

\* an invalidate that joins prefix and key with a separator
InvalidateKeySep(self, args, kwargs) ==
    LET r == Format(self.ruler, PruneArguments(self.func, args, kwargs))
    IN  IF r.ok
        THEN Ok(IF self.prefix # "" THEN self.prefix \o ":" \o r.v ELSE r.v)
        ELSE r

\* the key Cache.invalidate computes
InvalidateKey(self, args, kwargs) ==
    LET r == Format(self.ruler, PruneArguments(self.func, args, kwargs))
    IN  IF r.ok THEN Ok(WithPrefix(self.prefix, r.v)) ELSE r

\* a miss test against None instead of the sentinel
IsMissNone(result) == result = None

\* if result is NOT_FOUND
IsMiss(result) == result = NOT_FOUND

\* the errors a command on the connection can raise
StoreErrors == IF conn = "flaky" THEN {"ConnectionError"} ELSE {}

\* lines 107-108, the miss: self._func(**kwargs), then Store.set, which
\* encodes the result and sends it; every way they can end, as [store, rec]
Miss(self, kw, key, asked, st) ==
    UNION
    {LET called == [asked EXCEPT !.invokes = 1, !.fpos = <<>>, !.fargs = kw]
         data == ToJson(o.v)
         setting == [called EXCEPT !.sets = 1, !.setkey = key]
     IN  IF ~o.ok
         THEN {[store |-> st,
                rec |-> [called EXCEPT !.failed = "func", !.cause = o.err,
                                       !.raised = TRUE, !.err = o.err]]}
         ELSE IF ~data.ok
         THEN {[store |-> st,
                rec |-> [setting EXCEPT !.failed = "set", !.cause = data.err,
                                        !.raised = TRUE, !.err = data.err]]}
         ELSE {[store |-> StoreSet(st, key, data.v, self.timeout),
                rec |-> [setting EXCEPT !.setdata = data.v,
                                        !.setttl = self.timeout,
                                        !.result = o.v]]}
              \cup
              {[store |-> st,
                rec |-> [setting EXCEPT !.failed = "set", !.cause = e,
                                        !.raised = TRUE, !.err = e]]
               : e \in StoreErrors}
     : o \in Invoke(self.func, kw)}

\* a handler that takes a failed Store.get for a miss and computes
GetRaisedFallback(self, kw, key, asked, st) ==
    Miss(self, kw, key, [asked EXCEPT !.got = NOT_FOUND], st)

\* line 105 when Store.get raises: no handler, the error ends the call
GetRaised(self, kw, key, asked, st) ==
    {[store |-> st, rec |-> [asked EXCEPT !.raised = TRUE, !.err = asked.cause]]}

\* Cache.__call__: every way one call can end, as [store, rec]
RunCall(self, args, kwargs, st) ==
    LET kw == PruneArguments(self.func, args, kwargs)
        k == CallKey(self, args, kwargs)
        base == [Blank EXCEPT !.op = "call", !.target = self, !.args = args,
                              !.kwargs = kwargs, !.bind = kw]
    IN  IF ~k.ok
        THEN {[store |-> st,
               rec |-> [base EXCEPT !.failed = "key", !.cause = k.err,
                                    !.raised = TRUE, !.err = k.err]]}
        ELSE
        LET got == StoreGet(st, k.v)
            asking == [base EXCEPT !.key = k.v, !.existed = k.v \in DOMAIN st,
                                   !.gets = 1]
            asked == [asking EXCEPT !.got = got]
        IN  UNION {GetRaised(self, kw, k.v,
                             [asking EXCEPT !.failed = "get", !.cause = e], st)
                   : e \in StoreErrors}
            \cup
            IF ~IsMiss(got)
            THEN {[store |-> st, rec |-> [asked EXCEPT !.result = got]]}
            ELSE Miss(self, kw, k.v, asked, st)

\* Cache.invalidate: every way it can end, as [store, rec]
RunInvalidate(self, args, kwargs, st) ==
    LET kw == PruneArguments(self.func, args, kwargs)
        k == InvalidateKey(self, args, kwargs)
        base == [Blank EXCEPT !.op = "invalidate", !.target = self, !.args = args,
                              !.kwargs = kwargs, !.bind = kw]
    IN  IF ~k.ok
        THEN {[store |-> st,
               rec |-> [base EXCEPT !.failed = "key", !.cause = k.err,
                                    !.raised = TRUE, !.err = k.err]]}
        ELSE
        LET deleting == [base EXCEPT !.key = k.v, !.existed = k.v \in DOMAIN st,
                                     !.dels = 1, !.delkey = k.v]
        IN  {[store |-> StoreDelete(st, k.v), rec |-> deleting]}
            \cup
            {[store |-> st,
              rec |-> [deleting EXCEPT !.failed = "delete", !.cause = e,
                                       !.raised = TRUE, !.err = e]]
             : e \in StoreErrors}

(***************************************************************************)
(* The call sites: which Cache objects can be called, and with what.       *)
(***************************************************************************)
Instances == {Example(1), Example(2)}

\* the values a call site supplies for a parameter of a callable
ParamVals(name, param) ==
    CASE param \in {"self", "cls"} -> {Example(1)}
      [] name = "add" /\ param = "c" -> {PyInt(1), PyInt(2)}
      [] name = "add" -> {PyInt(3)}
      [] name = "mul" /\ param = "a" -> {PyInt(3)}
      [] name = "mul" /\ param = "b" -> {PyInt(4)}
      [] name = "mul" /\ param = "c" -> {PyInt(2), PyInt(3)}
      [] name = "Example.add" /\ param = "a" -> {PyInt(2)}
      [] name = "Example.add" /\ param = "b" -> {PyInt(3)}
      [] name = "Example.add" /\ param = "c" -> {PyInt(1)}
      [] name = "Example.mul" /\ param = "a" -> {PyInt(3)}
      [] name = "Example.mul" /\ param = "b" -> {PyInt(4)}
      [] name = "Example.mul" /\ param = "c" -> {PyInt(2)}
      [] name = "fetch" -> {PyInt(2), PyInt(3)}
      [] name = "stamp" -> {PyInt(2), PyInt(3)}
      [] name = "add_ref" /\ param = "a" -> {Point(3), PyInt(3)}
      [] name = "add_ref" /\ param = "b" -> {Point(4)}
      [] name = "add_ref" /\ param = "c" -> {PyInt(1)}

\* the Cache objects a caller can reach: module-level names, and the object
\* the latest attribute access on the class or an instance returned
Targets == {caches[n] : n \in DOMAIN caches \ ClassAttrs} \cup {b.cache : b \in bound}

\* positional argument lists: any prefix of the parameters zipped against
RECURSIVE ArgSeqs(_, _, _)
ArgSeqs(name, znames, n) ==
    IF n = 0 THEN {<<>>}
    ELSE LET shorter == ArgSeqs(name, znames, n - 1)
         IN  shorter \cup {Append(q, x) : q \in {p \in shorter : Len(p) = n - 1},
                                          x \in ParamVals(name, znames[n])}

ArgsOf(self) ==
    ArgSeqs(self.func.name, ZipNames(self.func), Len(ZipNames(self.func)))

\* the explicit (non-receiver) parameters of a callable
Explicit(name) ==
    {ArgNames(name)[i] : i \in 1..Len(ArgNames(name))} \ {"self", "cls"}

\* named arguments: any subset of the explicit parameters
KwargsOf(self) ==
    LET name == self.func.name
        all == UNION {ParamVals(name, n) : n \in Explicit(name)}
    IN  UNION {{f \in [names -> all] : \A n \in names : f[n] \in ParamVals(name, n)}
               : names \in SUBSET Explicit(name)}

\* the key just deleted by an invalidate that found it, for the next operation
JustInvalidated ==
    IF last.op = "invalidate" /\ ~last.raised /\ last.existed THEN last.key ELSE ""

Without(f, k) == [x \in DOMAIN f \ {k} |-> f[x]]

(***************************************************************************)
(* Actions.                                                                *)
(***************************************************************************)
\* attribute access Example.name or Example(incr).name
Get ==
    \E n \in DOMAIN caches \cap ClassAttrs, instance \in Instances \cup {None} :
        LET dict == DictCopy(caches[n])
            wrapped_self == CacheGet(dict.fields, instance, ExampleClass)
        IN  /\ bound' = {[cache |-> wrapped_self, via |-> instance]}
            /\ caches' = [caches EXCEPT ![n] = IF dict.shared THEN wrapped_self ELSE @]
            /\ UNCHANGED <<store, last, populated, nops, conn, procs>>

Call ==
    /\ nops < MaxOps
    /\ \E self \in Targets :
       \E args \in ArgsOf(self), kwargs \in KwargsOf(self) :
       \E out \in RunCall(self, args, kwargs, store) :
          /\ store' = out.store
          /\ last' = [out.rec EXCEPT !.pre = out.rec.key \in DOMAIN populated,
                                     !.prevInv = JustInvalidated]
          /\ populated' =
               IF out.rec.sets = 1 /\ ~out.rec.raised
               THEN [k \in DOMAIN populated \cup {out.rec.key} |->
                       IF k = out.rec.key
                       THEN [name |-> self.func.name, self |-> self.func.self,
                             bind |-> out.rec.bind, npos |-> Len(args),
                             result |-> out.rec.result]
                       ELSE populated[k]]
               ELSE populated
    /\ nops' = nops + 1
    /\ UNCHANGED <<caches, bound, conn, procs>>

Invalidate ==
    /\ nops < MaxOps
    /\ \E self \in Targets :
       \E args \in ArgsOf(self), kwargs \in KwargsOf(self) :
       \E out \in RunInvalidate(self, args, kwargs, store) :
          /\ store' = out.store
          /\ last' = [out.rec EXCEPT !.pre = out.rec.key \in DOMAIN populated,
                                     !.prevInv = JustInvalidated]
          /\ populated' = IF out.rec.dels = 1 /\ ~out.rec.raised
                          THEN Without(populated, out.rec.key)
                          ELSE populated
    /\ nops' = nops + 1
    /\ UNCHANGED <<caches, bound, conn, procs>>

\* the time to live of a key runs out in Redis
Expire ==
    /\ nops < MaxOps
    /\ \E k \in DOMAIN store :
          /\ store' = Without(store, k)
          /\ populated' = Without(populated, k)
          /\ last' = [Blank EXCEPT !.op = "expire", !.key = k, !.existed = TRUE,
                                   !.prevInv = JustInvalidated]
    /\ nops' = nops + 1
    /\ UNCHANGED <<caches, bound, conn, procs>>

(***************************************************************************)
(* Construction: CacheFactory.from_store_conn and from_store_url.          *)
(***************************************************************************)
\* Serializer.SUPPORTED_FORMATS
SUPPORTED_FORMATS == {"JSON", "PICKLE"}

\* format.upper(), for the format names a caller may pass
Upper(format) ==
    CASE format = "json" -> "JSON"
      [] format = "pickle" -> "PICKLE"
      [] format = "yaml" -> "YAML"
      [] OTHER -> format

\* Serializer(**kw): the signature is __init__(self, format="JSON")
SerializerInit(kw) ==
    IF ~(DOMAIN kw \subseteq {"format"}) THEN Raise("TypeError")
    ELSE LET format == Upper(IF "format" \in DOMAIN kw THEN kw["format"] ELSE "JSON")
         IN  IF format \in SUPPORTED_FORMATS
             THEN Ok([format |-> format])
             ELSE Raise("ValueError")

\* RedisStore(conn, format_type): builds Serializer(format_type=format_type)
RedisStoreInit(conn_, format_type) ==
    LET serializer == SerializerInit([n \in {"format_type"} |-> format_type])
    IN  IF serializer.ok THEN Ok("redis") ELSE serializer

\* RedisStore.from_url(url): RedisStore(StrictRedis.from_url(url), "JSON")
RedisStoreFromUrl(url) == RedisStoreInit(url, "JSON")

\* CacheFactory.from_store_conn(store_type, conn, prefix, default_timeout)
FromStoreConn(store_type, conn_, prefix, default_timeout) ==
    IF store_type = "redis"
    THEN LET st == RedisStoreInit(conn_, "JSON")
         IN  IF st.ok
             THEN Ok([store |-> st.v, prefix |-> prefix,
                      default_timeout |-> default_timeout])
             ELSE st
    ELSE Raise("NotImplementedError")

\* CacheFactory.from_store_url(store_type, store_url, prefix, default_timeout)
FromStoreUrl(store_type, store_url, prefix, default_timeout) ==
    IF store_type = "redis"
    THEN LET st == RedisStoreFromUrl(store_url)
         IN  IF st.ok
             THEN Ok([store |-> st.v, prefix |-> prefix,
                      default_timeout |-> default_timeout])
             ELSE st
    ELSE Raise("NotImplementedError")

\* what an application passes to the factory methods
StoreTypes == {"redis", "memcached", "file"}
Prefixes == {"", "app:", "test:"}
Timeouts == {DEFAULT_TIMEOUT, 60}

\* @cache(ruler) applied to add, with no timeout given: timeout or default
Decorate(factory, name) ==
    Cache(factory.store, factory.prefix, Decorated(name), Ruler(name),
          factory.default_timeout)

\* the application builds its decorator, then decorates add with it
Construct(op, made, store_type, prefix, default_timeout) ==
    /\ nops < MaxOps
    /\ last' = [Blank EXCEPT
                   !.op = op,
                   !.args = <<PyStr(store_type)>>,
                   !.kwargs = [n \in {"prefix", "default_timeout"} |->
                                  IF n = "prefix" THEN PyStr(prefix)
                                  ELSE PyInt(default_timeout)],
                   !.failed = IF made.ok THEN "" ELSE "construct",
                   !.cause = made.err,
                   !.raised = ~made.ok,
                   !.err = made.err]
    /\ caches' = IF made.ok THEN [n \in {"add"} |-> Decorate(made.v, n)]
                 ELSE caches
    /\ nops' = nops + 1
    /\ UNCHANGED <<store, bound, populated, conn, procs>>

ConstructFromConn ==
    \E store_type \in StoreTypes, prefix \in Prefixes, timeout \in Timeouts :
       Construct("from_store_conn",
                 FromStoreConn(store_type, "redis_client", prefix, timeout),
                 store_type, prefix, timeout)

ConstructFromUrl ==
    \E store_type \in StoreTypes, prefix \in Prefixes, timeout \in Timeouts :
       Construct("from_store_url",
                 FromStoreUrl(store_type, "redis://localhost", prefix, timeout),
                 store_type, prefix, timeout)

NextFactory == ConstructFromConn \/ ConstructFromUrl

(***************************************************************************)
(* Concurrent callers: threads that share the Cache object and the store.  *)
(* Each line of a handler that talks to the store or to the function is a  *)
(* step; the steps of different callers interleave freely.                 *)
(***************************************************************************)
Procs == 1..NProcs

\* a caller that has not started; invoked, wrote and before are history
Idle ==
    [pc |-> "idle", op |-> "", target |-> Blank.target, bind |-> EmptyKw,
     key |-> "", got |-> NOT_FOUND, result |-> None, err |-> "",
     invoked |-> FALSE, wrote |-> FALSE, before |-> {}]

\* Cache.__call__ up to the store access: bind the arguments, render the key
CallBegin(p) ==
    /\ procs[p].pc = "idle"
    /\ \E self \in Targets :
       \E args \in ArgsOf(self), kwargs \in KwargsOf(self) :
          LET k == CallKey(self, args, kwargs)
              mine == [Idle EXCEPT !.op = "call", !.target = self]
          IN  procs' = [procs EXCEPT ![p] =
                  IF k.ok
                  THEN [mine EXCEPT !.pc = "get", !.key = k.v,
                                    !.bind = PruneArguments(self.func, args, kwargs)]
                  ELSE [mine EXCEPT !.pc = "raised", !.err = k.err]]
    /\ UNCHANGED <<store, caches, bound, last, populated, nops, conn>>

\* a get that waits while another caller is computing the same key
GetStepExclusive(p) ==
    /\ procs[p].pc = "get"
    /\ \A q \in Procs \ {p} :
          ~(procs[q].pc \in {"invoke", "set"} /\ procs[q].key = procs[p].key)
    /\ LET got == StoreGet(store, procs[p].key)
       IN  procs' = [procs EXCEPT ![p] =
               IF ~IsMiss(got)
               THEN [@ EXCEPT !.pc = "done", !.got = got, !.result = got]
               ELSE [@ EXCEPT !.pc = "invoke", !.got = got]]
    /\ UNCHANGED <<store, caches, bound, last, populated, nops, conn>>

\* result = self._store.get(cache_key); a hit returns it
GetStep(p) ==
    /\ procs[p].pc = "get"
    /\ LET got == StoreGet(store, procs[p].key)
       IN  procs' = [procs EXCEPT ![p] =
               IF ~IsMiss(got)
               THEN [@ EXCEPT !.pc = "done", !.got = got, !.result = got]
               ELSE [@ EXCEPT !.pc = "invoke", !.got = got]]
    /\ UNCHANGED <<store, caches, bound, last, populated, nops, conn>>

\* result = self._func(**kwargs)
InvokeStep(p) ==
    /\ procs[p].pc = "invoke"
    /\ \E o \in Invoke(procs[p].target.func, procs[p].bind) :
          procs' = [procs EXCEPT ![p] =
              IF o.ok
              THEN [@ EXCEPT !.pc = "set", !.invoked = TRUE, !.result = o.v]
              ELSE [@ EXCEPT !.pc = "raised", !.invoked = TRUE, !.err = o.err]]
    /\ UNCHANGED <<store, caches, bound, last, populated, nops, conn>>

\* self._store.set(cache_key, result, self._timeout); return result
SetStep(p) ==
    /\ procs[p].pc = "set"
    /\ LET me == procs[p]
           data == ToJson(me.result)
       IN  IF ~data.ok
           THEN /\ procs' = [procs EXCEPT ![p] =
                                [@ EXCEPT !.pc = "raised", !.err = data.err]]
                /\ UNCHANGED <<store, populated>>
           ELSE /\ store' = StoreSet(store, me.key, data.v, me.target.timeout)
                /\ procs' = [procs EXCEPT ![p] =
                                [@ EXCEPT !.pc = "done", !.wrote = TRUE]]
                /\ populated' =
                      [k \in DOMAIN populated \cup {me.key} |->
                          IF k = me.key
                          THEN [name |-> me.target.func.name, bind |-> me.bind,
                                result |-> me.result, writer |-> p,
                                before |-> me.before, deletedBy |-> {}]
                          ELSE populated[k]]
    /\ UNCHANGED <<caches, bound, last, nops, conn>>

\* Cache.invalidate up to the store access.  History: the callers that hold
\* a function result for the same key, not yet stored, invoked the function
\* before this invalidate began.
InvalidateBegin(p) ==
    /\ procs[p].pc = "idle"
    /\ \E self \in Targets :
       \E args \in ArgsOf(self), kwargs \in KwargsOf(self) :
          LET k == InvalidateKey(self, args, kwargs)
              mine == [Idle EXCEPT !.op = "invalidate", !.target = self]
          IN  procs' = [q \in Procs |->
                  IF q = p
                  THEN IF k.ok THEN [mine EXCEPT !.pc = "delete", !.key = k.v]
                       ELSE [mine EXCEPT !.pc = "raised", !.err = k.err]
                  ELSE IF k.ok /\ procs[q].pc = "set" /\ procs[q].key = k.v
                  THEN [procs[q] EXCEPT !.before = @ \cup {p}]
                  ELSE procs[q]]
    /\ UNCHANGED <<store, caches, bound, last, populated, nops, conn>>

\* self._store.delete(cache_key), after which invalidate returns
DeleteStep(p) ==
    /\ procs[p].pc = "delete"
    /\ store' = StoreDelete(store, procs[p].key)
    /\ procs' = [procs EXCEPT ![p] = [@ EXCEPT !.pc = "done"]]
    /\ populated' =
          [k \in DOMAIN populated |->
              IF k = procs[p].key
              THEN [populated[k] EXCEPT !.deletedBy = @ \cup {p}]
              ELSE populated[k]]
    /\ UNCHANGED <<caches, bound, last, nops, conn>>

NextConcurrent ==
    \E p \in Procs :
        \/ CallBegin(p)
        \/ GetStep(p)
        \/ InvokeStep(p)
        \/ SetStep(p)
        \/ InvalidateBegin(p)
        \/ DeleteStep(p)

InitWith(names, prefixes, c) ==
    /\ store = [k \in {} |-> 0]
    /\ \E prefix \in prefixes : caches = [n \in names |-> Wrapper(prefix, n)]
    /\ bound = {}
    /\ last = Blank
    /\ populated = [k \in {} |-> 0]
    /\ nops = 0
    /\ conn = c
    /\ procs = <<>>

Next == Call \/ Invalidate \/ Expire
NextClass == Get \/ Call \/ Invalidate \/ Expire

\* the doctest function add, key "add:{a}:{b}"
Init == InitWith({"add"}, {""}, "up")
Spec == Init /\ [][Next]_vars

\* the doctest function mul, key "mul:{a}:{b}:{c}", with and without a prefix
InitMul == InitWith({"mul"}, {"", "app:"}, "up")
SpecMul == InitMul /\ [][Next]_vars

\* the instance method Example.add
InitMethod == InitWith({"Example.add"}, {""}, "up")
SpecMethod == InitMethod /\ [][NextClass]_vars

\* the classmethod Example.mul
InitClassmethod == InitWith({"Example.mul"}, {""}, "up")
SpecClassmethod == InitClassmethod /\ [][NextClass]_vars

\* a function whose result is any JSON value
InitValues == InitWith({"fetch"}, {""}, "up")
SpecValues == InitValues /\ [][Next]_vars

\* the doctest function add_ref, key "add_ref:{a.id}:{b.id}"
InitRef == InitWith({"add_ref"}, {""}, "up")
SpecRef == InitRef /\ [][Next]_vars

\* a function whose result is a date and time, a decimal or a sequence
InitStamps == InitWith({"stamp"}, {""}, "up")
SpecStamps == InitStamps /\ [][Next]_vars

\* fetch over a connection whose commands may fail
InitFaulty == InitWith({"fetch"}, {""}, "flaky")
SpecFaulty == InitFaulty /\ [][Next]_vars

\* an application that has no decorator yet and builds one
InitFactory ==
    /\ store = [k \in {} |-> 0]
    /\ caches = [n \in {} |-> 0]
    /\ bound = {}
    /\ last = Blank
    /\ populated = [k \in {} |-> 0]
    /\ nops = 0
    /\ conn = "up"
    /\ procs = <<>>
SpecFactory == InitFactory /\ [][NextFactory]_vars

\* concurrent callers of the doctest function add
InitConcurrent ==
    /\ store = [k \in {} |-> 0]
    /\ caches = [n \in {"add"} |-> Wrapper("", n)]
    /\ bound = {}
    /\ last = Blank
    /\ populated = [k \in {} |-> 0]
    /\ nops = 0
    /\ conn = "up"
    /\ procs = [p \in Procs |-> Idle]
SpecConcurrent == InitConcurrent /\ [][NextConcurrent]_vars

(***************************************************************************)
(* Properties.                                                             *)
(***************************************************************************)
ReturnedCall == last.op = "call" /\ ~last.raised

\* C1: a call in which no step raises does one Store.get; on a hit it invokes
\* the function zero times, writes nothing and returns the stored value; on a
\* miss it invokes the function once and does one Store.set, with the computed
\* key and the function's result.
C1_HitMissEffects ==
    ReturnedCall =>
        /\ last.gets = 1
        /\ last.got # NOT_FOUND =>
              /\ last.invokes = 0
              /\ last.sets = 0
              /\ last.result = last.got
        /\ last.got = NOT_FOUND =>
              /\ last.invokes = 1
              /\ last.sets = 1
              /\ last.setkey = last.key
              /\ Ok(last.result) \in Invoke(last.target.func, last.fargs)
              /\ last.setdata = ToJson(last.result).v
              /\ last.key \in DOMAIN store
              /\ store[last.key].data = last.setdata

\* a hit on a key an earlier miss wrote
C1_Witness ==
    /\ ReturnedCall
    /\ last.got = PyInt(7)
    /\ last.invokes = 0
    /\ last.key \in DOMAIN populated

\* C2: once a call has populated the key of some arguments, every later call
\* with the same arguments, with no invalidate and no expiry of the key in
\* between, invokes the function zero times, writes nothing and returns the
\* cached value.
C2_Idempotent ==
    (/\ last.op = "call"
     /\ last.pre
     /\ populated[last.key].name = last.target.func.name
     /\ populated[last.key].bind = last.bind)
    => /\ ~last.raised
       /\ last.invokes = 0
       /\ last.sets = 0
       /\ last.result = FromJson(ToJson(populated[last.key].result).v)
       /\ last.result = StoreGet(store, last.key)

\* the third call of add(3, 3)
C2_Witness ==
    /\ last.op = "call"
    /\ last.pre
    /\ nops = 3
    /\ last.args = <<PyInt(3), PyInt(3)>>
    /\ populated[last.key].bind = last.bind
    /\ populated[last.key].npos = 2
    /\ last.invokes = 0

\* C3: the miss sentinel differs from every cached value: after a miss whose
\* function returned None, 0, "", False or [], the next call with the same
\* arguments is a hit returning that value, and Store.get gives NOT_FOUND only
\* for a key the store does not hold.
C3_SentinelDistinct ==
    /\ NOT_FOUND \notin FetchReturns
    /\ (last.op = "call" /\ last.pre) =>
          /\ ~last.raised
          /\ last.got # NOT_FOUND
          /\ last.invokes = 0
          /\ last.result = populated[last.key].result
    /\ (last.op = "call" /\ last.gets = 1 /\ last.got = NOT_FOUND) => ~last.existed

\* a hit that returns a cached None
C3_Witness ==
    /\ ReturnedCall
    /\ last.pre
    /\ last.invokes = 0
    /\ last.result = None
    /\ populated[last.key].result = None

\* the parameters a caller supplies: all but the receiver of a bound method
Params(func) ==
    IF func.kind = "method" THEN Tail(ArgNames(func.name)) ELSE ArgNames(func.name)

\* a call form Python itself accepts for the function: no more positionals
\* than parameters, no parameter given twice, every required one given
ValidForm(func, args, kwargs) ==
    LET params == Params(func)
        nreq == Len(params) - Len(Defaults(func.name))
    IN  /\ Len(args) <= Len(params)
        /\ \A i \in 1..Len(args) : params[i] \notin DOMAIN kwargs
        /\ \A i \in 1..nreq : i <= Len(args) \/ params[i] \in DOMAIN kwargs

\* the logical arguments of a valid call form: parameter -> value
LogicalArgs(func, args, kwargs) ==
    LET params == Params(func)
        off == Len(params) - Len(Defaults(func.name))
    IN  [n \in {params[i] : i \in 1..Len(params)} |->
            LET i == CHOOSE j \in 1..Len(params) : params[j] = n
            IN  IF i <= Len(args) THEN args[i]
                ELSE IF n \in DOMAIN kwargs THEN kwargs[n]
                ELSE Defaults(func.name)[i - off]]

\* the replacement fields of a template
TemplateFields(ruler) == {ruler[i].s : i \in {j \in 1..Len(ruler) : ~ruler[j].lit}}

\* C4: every equivalent way of supplying the same logical arguments (positional,
\* named in any order, mixed, defaults left out) renders the key of the
\* all-named form, so a call in any form hits the entry a call in another form
\* populated and returns the same result.
C4_FormsShareKey ==
    (last.op = "call" /\ ValidForm(last.target.func, last.args, last.kwargs)) =>
        LET logical == LogicalArgs(last.target.func, last.args, last.kwargs)
        IN  /\ ~last.raised
            /\ last.key = CallKey(last.target, <<>>, logical).v
            /\ \A k \in DOMAIN populated :
                  populated[k].bind = logical =>
                     /\ k = last.key
                     /\ last.result = populated[k].result

\* mul(3, c=2, b=4) hits the entry mul(3, 4) populated
C4_Witness ==
    /\ ReturnedCall
    /\ last.args = <<PyInt(3)>>
    /\ DOMAIN last.kwargs = {"b", "c"}
    /\ last.invokes = 0
    /\ last.result = PyInt(24)
    /\ populated[last.key].npos = 2

\* C5: two calls that agree on the parameters the template names and differ on
\* the others compute the same key; the later one returns the result the
\* earlier one cached, and the function is not invoked again.
C5_KeySelectivity ==
    ReturnedCall =>
        \A k \in DOMAIN populated :
           (/\ populated[k].name = last.target.func.name
            /\ \A n \in TemplateFields(last.target.ruler) :
                  populated[k].bind[n] = last.bind[n])
           => /\ k = last.key
              /\ last.pre => /\ last.invokes = 0
                             /\ last.result = populated[k].result

\* add(3, b=3, c=2) returns the 7 that add(3, 3) cached
C5_Witness ==
    /\ ReturnedCall
    /\ last.pre
    /\ last.bind["c"] = PyInt(2)
    /\ populated[last.key].bind["c"] = PyInt(1)
    /\ last.invokes = 0
    /\ last.result = PyInt(7)

\* C6: the call that follows an invalidate of a populated key, with the same
\* logical arguments, gets NOT_FOUND, invokes the function with its own
\* arguments, stores the fresh result and returns it.
C6_InvalidateThenRecompute ==
    (last.op = "call" /\ last.prevInv # "" /\ last.key = last.prevInv) =>
        /\ ~last.raised
        /\ last.got = NOT_FOUND
        /\ last.invokes = 1
        /\ last.fargs = last.bind
        /\ Body(last.target.func, last.bind) = {Ok(last.result)}
        /\ last.sets = 1
        /\ last.key \in DOMAIN store
        /\ FromJson(store[last.key].data) = last.result

\* add.invalidate(3, 3), then add(3, b=3, c=2) returns 8
C6_Witness ==
    /\ ReturnedCall
    /\ last.prevInv = "add:3:3"
    /\ last.key = "add:3:3"
    /\ last.args = <<PyInt(3)>>
    /\ last.bind["c"] = PyInt(2)
    /\ last.result = PyInt(8)

\* C7: invalidate issues one Store.delete, on the key (prefix, if any, joined
\* to the rendered template with no separator) that a call with the same
\* arguments reads and writes; it does no get, no set and no invocation, and
\* every other key of the store is left as it was.
C7_InvalidateSymmetry ==
    [][(last'.op = "invalidate" /\ nops' = nops + 1 /\ ~last'.raised) =>
          /\ last'.dels = 1
          /\ last'.gets = 0
          /\ last'.sets = 0
          /\ last'.invokes = 0
          /\ last'.delkey = CallKey(last'.target, last'.args, last'.kwargs).v
          /\ last'.delkey =
                last'.target.prefix \o Format(last'.target.ruler, last'.bind).v
          /\ \A k \in DOMAIN populated :
                populated[k].bind = last'.bind => k = last'.delkey
          /\ store' = [k \in DOMAIN store \ {last'.delkey} |-> store[k]]]_vars

\* a prefixed key is deleted while another key stays in the store
C7_Witness ==
    /\ last.op = "invalidate"
    /\ last.existed
    /\ last.target.prefix = "app:"
    /\ last.delkey = "app:mul:3:4:2"
    /\ DOMAIN store = {"app:mul:3:4:3"}

\* C8: a decorated instance method reached through an instance leaves the
\* receiver out of the positional binding (the first positional argument is
\* the second declared parameter) and out of the key, so a second instance
\* called with the same arguments gets the value the first instance cached.
C8_InstancesShareEntry ==
    (last.op = "call" /\ last.target.func.kind = "method") =>
        /\ "self" \notin DOMAIN last.bind
        /\ Len(last.args) >= 1 =>
              last.bind[ArgNames(last.target.func.name)[2]] = last.args[1]
        /\ ValidForm(last.target.func, last.args, last.kwargs) => ~last.raised
        /\ ReturnedCall =>
              \A k \in DOMAIN populated :
                 (\A n \in DOMAIN last.bind : populated[k].bind[n] = last.bind[n])
                 => /\ k = last.key
                    /\ last.pre => /\ last.invokes = 0
                                   /\ last.result = populated[k].result

\* Example(2).add(2, 3) returns the 7 that Example(1).add(2, 3) cached
C8_Witness ==
    /\ ReturnedCall
    /\ last.pre
    /\ last.target.func = Func("Example.add", "method", Example(2))
    /\ last.args = <<PyInt(2), PyInt(3)>>
    /\ populated[last.key].self = Example(1)
    /\ last.invokes = 0
    /\ last.result = PyInt(7)

\* C9: a cache decorator on top of a classmethod binds the owning class as the
\* receiver, through the class and through an instance alike; cls is left out
\* of the positional binding and of the key, so every equivalent calling form
\* computes the same key and returns the same result.
C9_ClassmethodBinding ==
    /\ \A b \in bound : b.cache.func = Func("Example.mul", "method", ExampleClass)
    /\ (last.op = "call" /\ ValidForm(last.target.func, last.args, last.kwargs)) =>
          /\ ~last.raised
          /\ "cls" \notin DOMAIN last.bind
          /\ Len(last.args) >= 1 => last.bind["a"] = last.args[1]
          /\ last.key =
                CallKey(last.target, <<>>,
                        LogicalArgs(last.target.func, last.args, last.kwargs)).v
          /\ last.key = "example.mul:3:4:2"
          /\ last.result = PyInt(24)

\* mul(3, b=4, c=2) through an instance hits the entry another form populated
C9_Witness ==
    /\ ReturnedCall
    /\ \E b \in bound : b.via = Example(2) /\ b.cache = last.target
    /\ last.args = <<PyInt(3)>>
    /\ DOMAIN last.kwargs = {"b", "c"}
    /\ last.invokes = 0
    /\ populated[last.key].npos = 2
    /\ last.result = PyInt(24)

\* the positions of a call whose parameter is also given by name
Doubled(func, args, kwargs) ==
    {i \in 1..Len(args) : i <= Len(Params(func)) /\ Params(func)[i] \in DOMAIN kwargs}

\* C10 as stated: a parameter given both positionally and by name is bound to
\* the named value, which the key and the function then use.
C10_NamedWins ==
    last.op = "call" =>
        \A i \in Doubled(last.target.func, last.args, last.kwargs) :
           last.bind[Params(last.target.func)[i]]
              = last.kwargs[Params(last.target.func)[i]]

\* C10 amended: a parameter given both positionally and by name is bound to
\* the positional value; the key is the one the call without the named
\* duplicates computes, and a miss passes the positional value to the function.
C10_PositionalWins ==
    last.op = "call" =>
        LET func == last.target.func
            dup == Doubled(func, last.args, last.kwargs)
            named == {Params(func)[i] : i \in dup}
            rest == [n \in DOMAIN last.kwargs \ named |-> last.kwargs[n]]
        IN  /\ \A i \in dup : last.bind[Params(func)[i]] = last.args[i]
            /\ ~last.raised => last.key = CallKey(last.target, last.args, rest).v
            /\ last.invokes = 1 =>
                  \A i \in dup : last.fargs[Params(func)[i]] = last.args[i]

\* mul(3, 4, 2, c=3) is keyed and computed with c = 2
C10_Witness ==
    /\ ReturnedCall
    /\ last.args = <<PyInt(3), PyInt(4), PyInt(2)>>
    /\ DOMAIN last.kwargs = {"c"}
    /\ last.kwargs["c"] = PyInt(3)
    /\ last.key = "mul:3:4:2"
    /\ last.invokes = 1
    /\ last.fargs["c"] = PyInt(2)
    /\ last.result = PyInt(24)

\* the parameters without a default that a call form leaves unsupplied
Unsupplied(func, args, kwargs) ==
    LET params == Params(func)
        nreq == Len(params) - Len(Defaults(func.name))
    IN  {params[i] : i \in {j \in 1..nreq :
                              j > Len(args) /\ params[j] \notin DOMAIN kwargs}}

\* C11: a call or an invalidate that leaves a parameter without a default
\* unsupplied ends in an error, whether or not the template names the parameter
\* and whether or not the store holds the computed key.
C11_MissingRequiredErrors ==
    (/\ last.op \in {"call", "invalidate"}
     /\ Unsupplied(last.target.func, last.args, last.kwargs) # {})
    => last.raised

\* a template field the binding cannot render: its name is not bound, or the
\* bound value lacks the attribute the field asks for
Unrenderable(ruler, bind) ==
    \E i \in 1..Len(ruler) :
       /\ ~ruler[i].lit
       /\ \/ ruler[i].s \notin DOMAIN bind
          \/ /\ ruler[i].attr # ""
             /\ ~(bind[ruler[i].s].t = "Point" /\ ruler[i].attr = "id")

\* C12: when the template names a parameter the binding lacks, or an attribute
\* the bound value lacks, call and invalidate end with the rendering error,
\* the function is not invoked, no Store.get, Store.set or Store.delete is
\* issued and the store is unchanged.
C12_RenderErrorNoTraffic ==
    [][(/\ last'.op \in {"call", "invalidate"}
        /\ Unrenderable(last'.target.ruler, last'.bind))
       => /\ last'.raised
          /\ last'.err \in {"KeyError", "AttributeError"}
          /\ last'.invokes = 0
          /\ last'.gets = 0
          /\ last'.sets = 0
          /\ last'.dels = 0
          /\ store' = store]_vars

\* add_ref.invalidate(3, Point(4)) on a store that holds add_ref:3:4
C12_Witness ==
    /\ last.op = "invalidate"
    /\ last.raised
    /\ last.err = "AttributeError"
    /\ last.args = <<PyInt(3), Point(4)>>
    /\ last.dels = 0
    /\ "add_ref:3:4" \in DOMAIN store

\* C13: when Store.get, the function or Store.set raises during a call, the
\* call ends with that error, no later step of the call is performed (no
\* invocation after a failed get, no Store.set after a failed function, no
\* value returned after a failed set), no step is performed twice, and a
\* failure before the set leaves the store as it was.
C13_NoRetryNoFallback ==
    [][(last'.op = "call" /\ last'.failed \in {"get", "func", "set"})
       => /\ last'.raised
          /\ last'.err = last'.cause
          /\ last'.result = None
          /\ last'.gets = 1
          /\ last'.failed = "get" =>
                last'.invokes = 0 /\ last'.sets = 0 /\ store' = store
          /\ last'.failed = "func" =>
                last'.invokes = 1 /\ last'.sets = 0 /\ store' = store
          /\ last'.failed = "set" =>
                last'.invokes = 1 /\ last'.sets = 1]_vars

\* a call whose Store.get failed on a key the store holds
C13_Witness ==
    /\ last.op = "call"
    /\ last.failed = "get"
    /\ last.err = "ConnectionError"
    /\ last.existed
    /\ last.invokes = 0

\* C14 as stated: on a miss the function receives exactly the positional and
\* named arguments of the caller; omitted parameters are not passed.
C14_OriginalArgs ==
    (last.op = "call" /\ last.invokes = 1) =>
        /\ last.fpos = last.args
        /\ last.fargs = last.kwargs

\* the parameters with a default that a call form leaves out
LeftOut(func, args, kwargs) ==
    LET params == Params(func)
        off == Len(params) - Len(Defaults(func.name))
    IN  {i \in (off + 1)..Len(params) : i > Len(args) /\ params[i] \notin DOMAIN kwargs}

\* C14 amended: on a miss the function is invoked by keywords only, with the
\* normalized binding: each positional argument is passed under its parameter's
\* name and each omitted parameter is passed explicitly with its default.
C14_NormalizedKeywords ==
    (last.op = "call" /\ last.invokes = 1) =>
        LET func == last.target.func
            params == Params(func)
            off == Len(params) - Len(Defaults(func.name))
        IN  /\ last.fpos = <<>>
            /\ \A i \in 1..Len(last.args) :
                  i <= Len(params) => /\ params[i] \in DOMAIN last.fargs
                                      /\ last.fargs[params[i]] = last.args[i]
            /\ \A i \in LeftOut(func, last.args, last.kwargs) :
                  /\ params[i] \in DOMAIN last.fargs
                  /\ last.fargs[params[i]] = Defaults(func.name)[i - off]
            /\ ValidForm(func, last.args, last.kwargs) =>
                  last.fargs = LogicalArgs(func, last.args, last.kwargs)

\* the miss of add(3, 3): add is invoked as add(a=3, b=3, c=1)
C14_Witness ==
    /\ ReturnedCall
    /\ last.invokes = 1
    /\ last.args = <<PyInt(3), PyInt(3)>>
    /\ last.kwargs = EmptyKw
    /\ last.fpos = <<>>
    /\ DOMAIN last.fargs = {"a", "b", "c"}
    /\ last.fargs["c"] = PyInt(1)
    /\ last.result = PyInt(7)

\* C15: population is not single-flight.  No lock orders the callers: while
\* one caller is between its get and its set, the get of another caller of
\* the same key can be taken, and while the store lacks the key it reads
\* NOT_FOUND too.  The witness is the interleaving in which both callers
\* read NOT_FOUND, the function is invoked twice and the key is set twice.
C15_NotSingleFlight ==
    \A p \in Procs : \A q \in Procs \ {p} :
       (/\ procs[p].pc \in {"invoke", "set"}
        /\ procs[q].pc = "get"
        /\ procs[q].key = procs[p].key)
       => /\ ENABLED GetStep(q)
          /\ procs[p].key \notin DOMAIN store =>
                ENABLED (GetStep(q) /\ procs'[q].pc = "invoke")

\* both callers of add:3:3 read NOT_FOUND, invoked add and set the key
C15_Witness ==
    \E p \in Procs : \E q \in Procs \ {p} :
       /\ procs[p].pc = "done" /\ procs[q].pc = "done"
       /\ procs[p].op = "call" /\ procs[q].op = "call"
       /\ procs[p].key = "add:3:3" /\ procs[q].key = "add:3:3"
       /\ procs[p].got = NOT_FOUND /\ procs[q].got = NOT_FOUND
       /\ procs[p].invoked /\ procs[q].invoked
       /\ procs[p].wrote /\ procs[q].wrote

\* C18 as stated: once an invalidate of a key has returned, the store does not
\* hold under that key a value produced by an invocation that took place
\* before the invalidate began.
C18_NoStaleRepopulation ==
    \A k \in DOMAIN store :
       \A i \in populated[k].before : procs[i].pc # "done"

\* C18 amended: once an invalidate of a key has returned, the store does not
\* hold under that key a value stored before the delete of that invalidate; a
\* value in the store was set after every delete of its key so far (it may
\* still come from an invocation that preceded the invalidate).
C18_NoEntrySurvivesDelete ==
    \A k \in DOMAIN store :
       /\ k \in DOMAIN populated
       /\ populated[k].deletedBy = {}
       /\ store[k].data = ToJson(populated[k].result).v

\* a caller computed 7 or 8, an invalidate of add:3:3 began and returned, and
\* the caller then stored its result
C18_Witness ==
    /\ "add:3:3" \in DOMAIN store
    /\ \E i \in populated["add:3:3"].before :
          /\ procs[i].op = "invalidate"
          /\ procs[i].pc = "done"
          /\ procs[i].key = "add:3:3"
    /\ procs[populated["add:3:3"].writer].pc = "done"
    /\ populated["add:3:3"].deletedBy = {}

\* C16: from_store_conn("redis", conn) with the defaults builds the RedisStore
\* and its Serializer without error and yields a usable decorator; any other
\* store type ends in NotImplementedError.
C16_RedisConstructs ==
    last.op = "from_store_conn" =>
        IF last.args[1] = PyStr("redis")
        THEN ~last.raised /\ "add" \in DOMAIN caches
        ELSE last.raised /\ last.err = "NotImplementedError"

\* C17: copy-on-bind.  The object an attribute access returns has the store,
\* prefix, template and timeout of the unbound Cache and differs from it at
\* most in the wrapped callable, which is bound to the instance it was reached
\* through; whatever accesses and calls happen, the unbound Cache keeps all
\* its fields, the undecorated function included.
C17_CopyOnBind ==
    /\ \A n \in DOMAIN caches :
          /\ caches[n].func = Decorated(n)
          /\ caches[n] = Wrapper(caches[n].prefix, n)
    /\ \A b \in bound :
          LET original == caches[b.cache.func.name]
          IN  /\ b.cache.store = original.store
              /\ b.cache.prefix = original.prefix
              /\ b.cache.ruler = original.ruler
              /\ b.cache.timeout = original.timeout
              /\ b.via # None =>
                    b.cache.func = Func(original.func.name, "method", b.via)
              /\ b.via = None => b.cache.func = original.func

\* a call on the object bound to Example(2), after which the unbound Cache
\* still wraps the plain function
C17_Witness ==
    /\ ReturnedCall
    /\ last.target.func = Func("Example.add", "method", Example(2))
    /\ \E b \in bound : b.cache = last.target /\ b.via = Example(2)
    /\ caches["Example.add"].func = Func("Example.add", "function", None)
    /\ nops = 3

\* C19: a hit returns a value equal to the one the populating miss returned:
\* for every result the store accepts, the value decoded from the store is
\* the function's raw result.
C19_HitEqualsMiss ==
    (ReturnedCall /\ last.pre) =>
        /\ last.result = populated[last.key].result
        /\ StoreGet(store, last.key) = populated[last.key].result

\* C20: on a store that starts empty, every entry is at the key (prefix +)
\* template rendered from the binding of a call that was performed, and holds
\* the encoded result of an invocation of the function with a binding that
\* renders to that key; a call never removes an entry and an invalidate never
\* adds one.
C20_StoreContent ==
    /\ [](\A k \in DOMAIN store :
            /\ k \in DOMAIN populated
            /\ LET call == populated[k]
                   cache == caches[call.name]
                   func == Func(call.name, cache.func.kind, call.self)
               IN  /\ Format(cache.ruler, call.bind).ok
                   /\ k = cache.prefix \o Format(cache.ruler, call.bind).v
                   /\ Ok(call.result) \in Invoke(func, call.bind)
                   /\ store[k].data = ToJson(call.result).v
                   /\ store[k].ttl = cache.timeout)
    /\ [][/\ last'.op = "call" => DOMAIN store \subseteq DOMAIN store'
          /\ last'.op = "invalidate" => DOMAIN store' \subseteq DOMAIN store]_vars

\* two prefixed entries written by calls, one of them then invalidated
C20_Witness ==
    /\ last.op = "invalidate"
    /\ last.existed
    /\ last.key = "app:mul:3:4:2"
    /\ DOMAIN store = {"app:mul:3:4:3"}
    /\ populated["app:mul:3:4:3"].bind["c"] = PyInt(3)
    /\ nops = 3

====
